---- MODULE Spec2Model ----
(***************************************************************************)
(* Model of the Messenger chatbot bridge: src/lib/messenger.ts holds the   *)
(* MessengerClient (lines 1-206) and the Chatbot engine (lines 207-451);   *)
(* src/pages/api/webhook.ts and src/unnamed/part_000 hold the webhook      *)
(* handlers that call Chatbot.handleMessage once per messaging event.      *)
(*                                                                         *)
(* JavaScript runs one callback at a time, so every action below is the    *)
(* code between two awaits of handleMessage, or one timer callback.        *)
(* Times are in milliseconds.  A Date is kept as its age (now minus the    *)
(* Date), which is all the code ever reads of it; ages saturate at AgeCap, *)
(* above every threshold the code compares an age with.                    *)
(* A JavaScript string is a TLA+ string; an absent or undefined string     *)
(* field is "" and an absent array is << >>, which the code under study    *)
(* never tells apart (it tests them with !x, x || '' and x?.length > 0).   *)
(***************************************************************************)
EXTENDS Integers, Sequences, FiniteSets, TLC

VARIABLES flow, userSessions, heap, calls, history, webhook, built

vars == <<flow, userSessions, heap, calls, history, webhook, built>>

-----------------------------------------------------------------------------
(* Program constants *)

maxButtonTitleLength == 20

maxTextLength == 2000

maxMessagesPerMinute == 20

sessionTimeout == 30 * 60 * 1000

RateWindow == 60 * 1000

(* Bounds of the model *)

\* the clock is read at a resolution of RateWindow \div TicksPerWindow milliseconds
TicksPerWindow == 2

TickUnit == RateWindow \div TicksPerWindow

AgeCap == sessionTimeout + 1

\* the ages at which the model looks at a Date: at, just below and just above
\* the two thresholds the code compares an age with
Ages ==
    {0, TickUnit, RateWindow, RateWindow + TickUnit,
     sessionTimeout - RateWindow, sessionTimeout - TickUnit, sessionTimeout, AgeCap}

\* the lengths of time that lead from one such age to the next one
Steps ==
    {b - a : <<a, b>> \in {p \in Ages \X Ages :
                 p[1] < p[2] /\ \A x \in Ages : ~(p[1] < x /\ x < p[2])}}

Senders == {"u1"}

None == "<none>"

-----------------------------------------------------------------------------
(* The flow document (public/flow.json is not among the sources: the flows *)
(* below are inputs; each passes validateFlow)                             *)

Button(id, text) == [id |-> id, text |-> text]

TextItem(text, buttons) ==
    [type |-> "messengerTextVue", text |-> text, buttons |-> buttons,
     video_url |-> "", link |-> "", number |-> ""]

VideoItem(url, link, number) ==
    [type |-> "messengerVideoVue", text |-> "", buttons |-> << >>,
     video_url |-> url, link |-> link, number |-> number]

\* an item of any type, with every optional field
Item(type, text, buttons, url, link, number) ==
    [type |-> type, text |-> text, buttons |-> buttons,
     video_url |-> url, link |-> link, number |-> number]

Node(id, items) == [id |-> id, items |-> items]

Edge(source, target) == [source |-> source, target |-> target]

\* A: two buttons share a label up to case (b1 is declared first), b3 has no
\* edge, b4's first edge points at a node that does not exist.
\* B: a text item without buttons.  C: a text item with neither body nor buttons.
MainFlow ==
    [messages |-> <<
        Node("A", <<TextItem("Hi", <<Button("b1", "Next"), Button("b2", "next"),
                                     Button("b3", "Stop"), Button("b4", "Lost")>>)>>),
        Node("B", <<TextItem("Bye", << >>)>>),
        Node("C", <<TextItem("", << >>)>>) >>,
     edges |-> <<Edge("b1", "B"), Edge("b1", "C"), Edge("b2", "C"),
                 Edge("b4", "Z"), Edge("b4", "C")>>]

\* passes validateFlow (both collections are arrays) and declares no node
EmptyFlow == [messages |-> << >>, edges |-> << >>]

Flows == {MainFlow, EmptyFlow}

Payloads == {"b1", "b3", "b4"}

Texts == {"NEXT", "Lost", "stop", "hello"}

\* a messaging event as handleMessage reads it: message.postback?.payload and
\* message.text, "" when absent.  OtherEvent is any event with neither, which
\* includes one whose text sits below message.message, where the code does not
\* look for it.
PostbackEvent(p) == [postback |-> p, text |-> ""]

TextEvent(t) == [postback |-> "", text |-> t]

OtherEvent == [postback |-> "", text |-> ""]

Events == {PostbackEvent(p) : p \in Payloads} \cup {TextEvent(t) : t \in Texts}
          \cup {OtherEvent}

-----------------------------------------------------------------------------
(* Strings *)

Min(a, b) == IF a < b THEN a ELSE b

\* String.prototype.substring(0, n)
Substring0(s, n) == SubSeq(s, 1, Min(Len(s), n))

UpperChars == <<"A", "B", "C", "D", "E", "F", "G", "H", "I", "J", "K", "L", "M",
                "N", "O", "P", "Q", "R", "S", "T", "U", "V", "W", "X", "Y", "Z">>

LowerChars == <<"a", "b", "c", "d", "e", "f", "g", "h", "i", "j", "k", "l", "m",
                "n", "o", "p", "q", "r", "s", "t", "u", "v", "w", "x", "y", "z">>

LowerChar(c) ==
    IF \E i \in 1..Len(UpperChars) : UpperChars[i] = c
    THEN LowerChars[CHOOSE i \in 1..Len(UpperChars) : UpperChars[i] = c]
    ELSE c

RECURSIVE toLowerCase(_)
toLowerCase(s) ==
    IF Len(s) = 0 THEN ""
    ELSE LowerChar(SubSeq(s, 1, 1)) \o toLowerCase(SubSeq(s, 2, Len(s)))

-----------------------------------------------------------------------------
(* Flow Graph Store *)

NotFound == Node(None, << >>)

\* Array.prototype.find: the first message whose id matches, or undefined
findNodeById(f, id) ==
    IF \E i \in 1..Len(f.messages) : f.messages[i].id = id
    THEN f.messages[CHOOSE i \in 1..Len(f.messages) :
                       /\ f.messages[i].id = id
                       /\ \A j \in 1..(i - 1) : f.messages[j].id # id]
    ELSE NotFound

RECURSIVE FilterMapEdges(_, _)
FilterMapEdges(edges, id) ==
    IF edges = << >> THEN << >>
    ELSE (IF Head(edges).source = id THEN <<Head(edges).target>> ELSE << >>)
         \o FilterMapEdges(Tail(edges), id)

\* edges.filter(edge => edge.source === id).map(edge => edge.target)
findNextNodes(f, currentNodeId) == FilterMapEdges(f.edges, currentNodeId)

\* mutant: the last matching edge is taken instead of the first
LastOf(ids) == IF ids = << >> THEN "" ELSE ids[Len(ids)]

\* nextNodes[0]: "" (undefined) when the array is empty
FirstOf(ids) == IF ids = << >> THEN "" ELSE ids[1]

-----------------------------------------------------------------------------
(* Message Template Builder and the gateway's message preparation *)

NotConfiguredNotice == "Sorry, this message is not properly configured."

DontUnderstandNotice == "Sorry, I don't understand that message type."

PrepareErrorNotice ==
    "Sorry, I encountered an error preparing the message. Please try again."

RateLimitNotice ==
    "You're sending messages too quickly. Please wait a moment before trying again."

ErrorNotice == "Sorry, I encountered an error. Please try again."

TextTemplate(text) == [template_type |-> "text", text |-> text]

\* the template of one item (the body of createTemplateFromNode after item is bound)
TemplateOfItem(item) ==
    IF item.type = "messengerTextVue" THEN
       IF Len(item.buttons) > 0
       THEN [template_type |-> "button", text |-> item.text,
             buttons |-> [i \in 1..Len(item.buttons) |->
                            [type |-> "postback",
                             title |-> item.buttons[i].text,
                             payload |-> item.buttons[i].id]]]
       ELSE TextTemplate(item.text)
    ELSE IF item.type = "messengerVideoVue" /\ item.video_url # "" THEN
       [template_type |-> "media",
        attachment |-> [type |-> "video", payload |-> [url |-> item.video_url]]]
    ELSE IF item.type = "messengerVideoVue" /\ item.link # "" THEN
       [template_type |-> "generic",
        elements |-> <<[title |-> IF item.number # "" THEN item.number ELSE "Video",
                        subtitle |-> "Click to watch",
                        default_action |-> [type |-> "web_url", url |-> item.link],
                        buttons |-> <<[type |-> "web_url", url |-> item.link,
                                       title |-> "Watch Video"]>>]>>]
    ELSE TextTemplate(DontUnderstandNotice)

\* mutant: the node's last item is consulted
createTemplateFromLastItem(node) ==
    IF node.items = << >> THEN TextTemplate(NotConfiguredNotice)
    ELSE TemplateOfItem(node.items[Len(node.items)])

createTemplateFromNode(node) ==
    IF node.items = << >> THEN TextTemplate(NotConfiguredNotice)
    ELSE TemplateOfItem(node.items[1])

\* mutant: the body is cut one character too late
validateTextLate(text) == IF text = "" THEN "" ELSE Substring0(text, maxTextLength + 1)

validateText(text) == IF text = "" THEN "" ELSE Substring0(text, maxTextLength)

validateButtonTitle(title) ==
    IF title = "" THEN "" ELSE Substring0(title, maxButtonTitleLength)

\* mutant: four buttons are kept
validateFourButtons(buttons) ==
    [i \in 1..Min(Len(buttons), 4) |->
        [buttons[i] EXCEPT !.title = validateButtonTitle(buttons[i].title)]]

\* buttons.slice(0, 3).map(button => ({...button, title: validateButtonTitle(title)}))
validateButtons(buttons) ==
    [i \in 1..Min(Len(buttons), 3) |->
        [buttons[i] EXCEPT !.title = validateButtonTitle(buttons[i].title)]]

\* elements.slice(0, 10).map(...)
validateElements(elements) ==
    [i \in 1..Min(Len(elements), 10) |->
        [elements[i] EXCEPT !.title = validateText(elements[i].title),
                            !.subtitle = validateText(elements[i].subtitle),
                            !.buttons = validateButtons(elements[i].buttons)]]

\* the message sendTemplate hands to sendMessage: the prepared template, or the
\* fallback text when preparing throws (empty text, missing URL, unknown type)
sendTemplateMessage(template) ==
    LET fallback == [text |-> PrepareErrorNotice] IN
    CASE template.template_type = "generic" ->
            [attachment |-> [type |-> "template",
                             payload |-> [template_type |-> "generic",
                                          elements |-> validateElements(template.elements)]]]
      [] template.template_type = "button" ->
            IF template.text = "" THEN fallback
            ELSE [attachment |-> [type |-> "template",
                                  payload |-> [template_type |-> "button",
                                               text |-> validateText(template.text),
                                               buttons |-> validateButtons(template.buttons)]]]
      [] template.template_type = "media" ->
            IF template.attachment.payload.url = "" THEN fallback
            ELSE [attachment |-> template.attachment]
      [] template.template_type = "text" ->
            IF template.text = "" THEN fallback
            ELSE [text |-> validateText(template.text)]
      [] OTHER -> fallback

-----------------------------------------------------------------------------
(* Session Registry and Rate Limiter *)

\* in-flight handleMessage calls the model follows at once
MaxCalls == 2

CallIds == 1..MaxCalls

\* session objects: one per registry entry, and one per call still holding a
\* session the sweep has deleted from the registry
ObjIds == 1..(Cardinality(Senders) + MaxCalls)

NoSession == [currentNode |-> None, lastInteraction |-> 0, messageCount |-> 0]

\* getUserSession's new session; flow.messages[0].id throws on an empty array
NewSession(f) ==
    [currentNode |-> f.messages[1].id, lastInteraction |-> 0, messageCount |-> 0]

\* mutant: the timestamp is refreshed and the count is not incremented
updateWithoutCount(session) == [session EXCEPT !.lastInteraction = 0]

\* updateSessionActivity
updateSessionActivity(session) ==
    [session EXCEPT !.lastInteraction = 0, !.messageCount = @ + 1]

\* mutant: a session at the limit is still admitted
checkRateLimitInclusive(session) ==
    LET after == IF session.lastInteraction > RateWindow
                 THEN [session EXCEPT !.messageCount = 0]
                 ELSE session
    IN [session |-> after, allowed |-> after.messageCount <= maxMessagesPerMinute]

\* checkRateLimit: the session as the check leaves it, and the check's result
checkRateLimit(session) ==
    LET after == IF session.lastInteraction > RateWindow
                 THEN [session EXCEPT !.messageCount = 0]
                 ELSE session
    IN [session |-> after, allowed |-> after.messageCount < maxMessagesPerMinute]

\* mutant: a session idle for exactly sessionTimeout is deleted too
ExpiredInclusive(session) == session.lastInteraction >= sessionTimeout

\* the sweep's test of one entry
Expired(session) == session.lastInteraction > sessionTimeout

\* objects that neither the registry nor a call refers to are garbage
Collect(h, us, cs) ==
    [o \in ObjIds |->
        IF (\E u \in Senders : us[u] = o) \/ (\E c \in CallIds : cs[c].session = o)
        THEN h[o] ELSE NoSession]

FreeObj(us, cs) ==
    CHOOSE o \in ObjIds :
        /\ \A u \in Senders : us[u] # o
        /\ \A c \in CallIds : cs[c].session # o
        /\ \A p \in ObjIds : (p < o) =>
              ((\E u \in Senders : us[u] = p) \/ (\E c \in CallIds : cs[c].session = p))

-----------------------------------------------------------------------------
(* History: when history.on, the age of every admission of the last        *)
(* RateWindow milliseconds, per sender, as a set of <<age, how many>>;     *)
(* history.swept says that the cleanup callback has run since the clock    *)
(* last advanced                                                           *)

NoHistory == [on |-> FALSE, admits |-> [u \in Senders |-> {}], swept |-> FALSE]

CountAt(h, age) == IF \E p \in h : p[1] = age THEN (CHOOSE p \in h : p[1] = age)[2] ELSE 0

Admit(hist, u) ==
    IF hist.on
    THEN [hist EXCEPT !.admits[u] =
             {p \in @ : p[1] # 0} \cup {<<0, CountAt(@, 0) + 1>>}]
    ELSE hist

Elapse(hist, d) ==
    [hist EXCEPT !.admits =
        [u \in Senders |-> {<<p[1] + d, p[2]>> : p \in {q \in @[u] : q[1] + d <= RateWindow}}]]

-----------------------------------------------------------------------------
(* Conversation Engine: Chatbot.handleMessage *)

Idle ==
    [pc |-> "idle", sender |-> None, message |-> OtherEvent, session |-> 0,
     admitted |-> FALSE, pre |-> NoSession, checked |-> 0, trace |-> << >>, touches |-> << >>,
     swallowed |-> {}, error |-> None, thrown |-> None]

\* one call of MessengerClient.sendMessage, named by its call site
Sent(site, to, message) == [site |-> site, to |-> to, message |-> message]

SenderAction(a) == [sender_action |-> a]

\* mutant: the label is compared without folding case
MatchingButtonExact(node, text) ==
    LET buttons == IF node.items = << >> THEN << >> ELSE node.items[1].buttons
        hit(i) == buttons[i].text = text
    IN IF \E i \in 1..Len(buttons) : hit(i)
       THEN buttons[CHOOSE i \in 1..Len(buttons) :
                       hit(i) /\ \A j \in 1..(i - 1) : ~hit(j)]
       ELSE Button("", "")

\* the first button of the node's first item whose label equals the text up to case
MatchingButton(node, text) ==
    LET buttons == IF node.items = << >> THEN << >> ELSE node.items[1].buttons
        hit(i) == toLowerCase(buttons[i].text) = toLowerCase(text)
    IN IF \E i \in 1..Len(buttons) : hit(i)
       THEN buttons[CHOOSE i \in 1..Len(buttons) :
                       hit(i) /\ \A j \in 1..(i - 1) : ~hit(j)]
       ELSE Button("", "")

\* mutant: a text event that resolves no target does not restart
resolveWithoutRestart(f, session, message) ==
    IF message.postback # "" THEN FirstOf(findNextNodes(f, message.postback))
    ELSE IF message.text # "" THEN
        LET matchingButton == MatchingButton(findNodeById(f, session.currentNode),
                                             message.text)
        IN IF matchingButton.id # ""
           THEN FirstOf(findNextNodes(f, matchingButton.id))
           ELSE ""
    ELSE ""

\* handleMessage's node resolution: "" is undefined
resolveNextNodeId(f, session, message) ==
    IF message.postback # "" THEN FirstOf(findNextNodes(f, message.postback))
    ELSE IF message.text # "" THEN
        LET currentNode == findNodeById(f, session.currentNode)
            matchingButton == MatchingButton(currentNode, message.text)
            byButton == IF matchingButton.id # ""
                        THEN FirstOf(findNextNodes(f, matchingButton.id))
                        ELSE ""
        IN IF byButton # "" THEN byButton ELSE f.messages[1].id
    ELSE ""

\* mutant: the target is taken without looking it up
ResolvesUnchecked(f, nextNodeId) == nextNodeId # ""

\* whether handleMessage transitions to nextNodeId
Resolves(f, nextNodeId) == nextNodeId # "" /\ findNodeById(f, nextNodeId) # NotFound

\* the webhook handler between two POST requests
NoBatch == [events |-> << >>, outcomes |-> << >>, status |-> 0, responses |-> << >>]

\* no node has been handed to the template builder
NotBuilt == [stage |-> "none", node |-> NotFound, template |-> TextTemplate(""),
             message |-> [text |-> ""]]

TypeInit ==
    /\ flow \in Flows
    /\ userSessions = [u \in Senders |-> 0]
    /\ heap = [o \in ObjIds |-> NoSession]
    /\ calls = [c \in CallIds |-> Idle]

Init == TypeInit /\ history = NoHistory /\ webhook = NoBatch /\ built = NotBuilt

\* handleMessage up to its first await: getUserSession, checkRateLimit, and the
\* first gateway call (the rate-limit notice, mark-seen, or the error notice of
\* the catch block when getUserSession throws)
Receive(c, u, m) ==
    /\ calls[c].pc = "idle"
    /\ \A b \in 1..(c - 1) : calls[b].pc # "idle"
    /\ IF userSessions[u] = 0 /\ flow.messages = << >>
       THEN /\ calls' = [calls EXCEPT ![c] =
                  [Idle EXCEPT !.pc = "errorNotice", !.sender = u, !.message = m,
                               !.error = "TypeError",
                               !.trace = <<Sent("errorNotice", u, sendTemplateMessage(TextTemplate(ErrorNotice)))>>]]
            /\ UNCHANGED <<userSessions, heap, history>>
       ELSE LET o == IF userSessions[u] = 0 THEN FreeObj(userSessions, calls)
                     ELSE userSessions[u]
                session == IF userSessions[u] = 0 THEN NewSession(flow) ELSE heap[o]
                check == checkRateLimit(session)
                first == IF check.allowed
                         THEN Sent("markSeen", u, SenderAction("mark_seen"))
                         ELSE Sent("rateNotice", u, sendTemplateMessage(TextTemplate(RateLimitNotice)))
            IN /\ userSessions' = [userSessions EXCEPT ![u] = o]
               /\ heap' = [heap EXCEPT ![o] = check.session]
               /\ calls' = [calls EXCEPT ![c] =
                     [Idle EXCEPT !.pc = IF check.allowed THEN "markSeen" ELSE "rateNotice",
                                  !.sender = u, !.message = m, !.session = o,
                                  !.admitted = check.allowed,
                                  !.pre = [session EXCEPT !.lastInteraction = 0],
                                  !.checked = check.session.messageCount,
                                  !.trace = <<first>>]]
               /\ history' = IF check.allowed THEN Admit(history, u) ELSE history
    /\ UNCHANGED <<flow, webhook, built>>

\* markSeen, typingOn and typingOff catch the failure of their delivery and log it
Swallow(cs, c, site, ok) ==
    IF ok THEN cs ELSE [cs EXCEPT ![c].swallowed = @ \cup {site}]

\* mutant: a failed markSeen is taken by handleMessage's catch block
MarkSeenEscalates(c, ok) ==
    /\ calls[c].pc = "markSeen"
    /\ IF ok
       THEN calls' = [calls EXCEPT ![c].pc = "typingOn",
                                   ![c].trace = Append(@, Sent("typingOn", calls[c].sender,
                                                               SenderAction("typing_on")))]
       ELSE calls' = [calls EXCEPT ![c].pc = "errorNotice", ![c].error = "DeliveryError",
                                   ![c].trace = Append(@, Sent("errorNotice", calls[c].sender,
                                                               [text |-> ErrorNotice]))]
    /\ UNCHANGED <<flow, userSessions, heap, history, webhook, built>>

\* markSeen settles (a failure is logged and swallowed); typingOn is sent
MarkSeenReturns(c, ok) ==
    /\ calls[c].pc = "markSeen"
    /\ calls' = [Swallow(calls, c, "markSeen", ok) EXCEPT ![c].pc = "typingOn",
                              ![c].trace = Append(@, Sent("typingOn", calls[c].sender,
                                                          SenderAction("typing_on")))]
    /\ UNCHANGED <<flow, userSessions, heap, history, webhook, built>>

\* mutant: typingOff is sent before the session is touched
TypingOffThenTouch(c, h, cs) ==
    /\ heap' = [h EXCEPT ![calls[c].session] = updateSessionActivity(@)]
    /\ calls' = [cs EXCEPT ![c].pc = "typingOff",
                           ![c].touches = Append(@, Len(cs[c].trace) + 1),
                           ![c].trace = Append(@, Sent("typingOff", calls[c].sender,
                                                       SenderAction("typing_off")))]

\* the tail of the try block: updateSessionActivity, then typingOff is sent
TouchAndTypingOff(c, h, cs) ==
    /\ heap' = [h EXCEPT ![calls[c].session] = updateSessionActivity(@)]
    /\ calls' = [cs EXCEPT ![c].pc = "typingOff",
                           ![c].touches = Append(@, Len(cs[c].trace)),
                           ![c].trace = Append(@, Sent("typingOff", calls[c].sender,
                                                       SenderAction("typing_off")))]

\* typingOn settles; the next node is resolved and, if it exists, becomes the
\* current node and its template is sent; otherwise the try block runs to its tail
TypingOnReturns(c, ok) ==
    /\ calls[c].pc = "typingOn"
    /\ LET o == calls[c].session
           nextNodeId == resolveNextNodeId(flow, heap[o], calls[c].message)
       IN IF Resolves(flow, nextNodeId)
          THEN /\ heap' = [heap EXCEPT ![o].currentNode = nextNodeId]
               /\ calls' = [Swallow(calls, c, "typingOn", ok) EXCEPT
                     ![c].pc = "sendTemplate",
                     ![c].trace = Append(@, Sent("template", calls[c].sender,
                         sendTemplateMessage(createTemplateFromNode(findNodeById(flow, nextNodeId)))))]
          ELSE TouchAndTypingOff(c, heap, Swallow(calls, c, "typingOn", ok))
    /\ UNCHANGED <<flow, userSessions, history, webhook, built>>

\* the error notice of handleMessage's catch block is sent
CatchAndNotify(c, err) ==
    calls' = [calls EXCEPT ![c].pc = "errorNotice", ![c].error = err,
                           ![c].trace = Append(@, Sent("errorNotice", calls[c].sender,
                                sendTemplateMessage(TextTemplate(ErrorNotice))))]

\* mutant: a failed delivery puts the session back on the node the event found
SendTemplateRollsBack(c, ok) ==
    /\ calls[c].pc = "sendTemplate"
    /\ IF ok THEN TouchAndTypingOff(c, heap, calls)
       ELSE /\ CatchAndNotify(c, "DeliveryError")
            /\ heap' = [heap EXCEPT ![calls[c].session].currentNode = calls[c].pre.currentNode]
    /\ UNCHANGED <<flow, userSessions, history, webhook, built>>

\* the node template's delivery settles
SendTemplateReturns(c, ok) ==
    /\ calls[c].pc = "sendTemplate"
    /\ IF ok THEN TouchAndTypingOff(c, heap, calls)
       ELSE CatchAndNotify(c, "DeliveryError") /\ UNCHANGED heap
    /\ UNCHANGED <<flow, userSessions, history, webhook, built>>

\* typingOff settles (a failure is swallowed); handleMessage resolves
TypingOffReturns(c, ok) ==
    /\ calls[c].pc = "typingOff"
    /\ calls' = [Swallow(calls, c, "typingOff", ok) EXCEPT ![c].pc = "done"]
    /\ UNCHANGED <<flow, userSessions, heap, history, webhook, built>>

\* mutant: the return after the rate-limit notice is missing
RateNoticeFallsThrough(c, ok) ==
    /\ calls[c].pc = "rateNotice"
    /\ IF ok THEN calls' = [calls EXCEPT ![c].pc = "markSeen",
                                         ![c].trace = Append(@, Sent("markSeen", calls[c].sender,
                                                                     SenderAction("mark_seen")))]
       ELSE CatchAndNotify(c, "DeliveryError")
    /\ UNCHANGED <<flow, userSessions, heap, history, webhook, built>>

\* the rate-limit notice's delivery settles; handleMessage returns, or its catch
\* block takes the delivery error
RateNoticeReturns(c, ok) ==
    /\ calls[c].pc = "rateNotice"
    /\ IF ok THEN calls' = [calls EXCEPT ![c].pc = "done"]
       ELSE CatchAndNotify(c, "DeliveryError")
    /\ UNCHANGED <<flow, userSessions, heap, history, webhook, built>>

\* the error notice's delivery settles: handleMessage rejects with the caught
\* error, or with the notice's own delivery error
ErrorNoticeReturns(c, ok) ==
    /\ calls[c].pc = "errorNotice"
    /\ calls' = [calls EXCEPT ![c].pc = "done",
                              ![c].thrown = IF ok THEN calls[c].error
                                            ELSE "NoticeDeliveryError"]
    /\ UNCHANGED <<flow, userSessions, heap, history, webhook, built>>

\* the webhook handler takes the call's outcome
Return(c) ==
    /\ calls[c].pc = "done"
    /\ calls' = [calls EXCEPT ![c] = Idle]
    /\ heap' = Collect(heap, userSessions, calls')
    /\ UNCHANGED <<flow, userSessions, history, webhook, built>>

\* time passes
Tick(d) ==
    /\ heap' = [o \in ObjIds |->
                  IF heap[o] = NoSession THEN NoSession
                  ELSE [heap[o] EXCEPT !.lastInteraction = Min(@ + d, AgeCap)]]
    /\ heap' # heap
    /\ \A o \in ObjIds : heap'[o].lastInteraction \in Ages
    /\ history' = [Elapse(history, d) EXCEPT !.swept = FALSE]
    /\ UNCHANGED <<flow, userSessions, calls, webhook, built>>

\* the cleanup timer's callback
Sweep ==
    /\ userSessions' = [u \in Senders |->
                          IF userSessions[u] # 0 /\ Expired(heap[userSessions[u]])
                          THEN 0 ELSE userSessions[u]]
    /\ userSessions' # userSessions \/ ~history.swept
    /\ heap' = Collect(heap, userSessions', calls)
    /\ history' = [history EXCEPT !.swept = TRUE]
    /\ UNCHANGED <<flow, calls, webhook, built>>

\* no handleMessage call is in flight
Quiet == \A c \in CallIds : calls[c].pc = "idle"

\* events are delivered one at a time: the next one when the last has returned
Next ==
    \/ \E c \in CallIds, u \in Senders, m \in Events : Quiet /\ Receive(c, u, m)
    \/ \E c \in CallIds, ok \in BOOLEAN : MarkSeenReturns(c, ok)
    \/ \E c \in CallIds, ok \in BOOLEAN : TypingOnReturns(c, ok)
    \/ \E c \in CallIds, ok \in BOOLEAN : SendTemplateReturns(c, ok)
    \/ \E c \in CallIds, ok \in BOOLEAN : TypingOffReturns(c, ok)
    \/ \E c \in CallIds, ok \in BOOLEAN : RateNoticeReturns(c, ok)
    \/ \E c \in CallIds, ok \in BOOLEAN : ErrorNoticeReturns(c, ok)
    \/ \E c \in CallIds : Return(c)
    \/ \E d \in Steps : Tick(d)
    \/ Sweep

Spec == Init /\ [][Next]_vars

\* The same engine with the history of admissions recorded, on the main flow and
\* with events that carry neither a postback nor a text: each admitted one is
\* touched, so the recorded history stays within the rate limit.
InitWindow ==
    /\ TypeInit /\ flow = MainFlow /\ history = [NoHistory EXCEPT !.on = TRUE]
    /\ webhook = NoBatch /\ built = NotBuilt

WindowEvents == {OtherEvent}

NextWindow ==
    \/ \E c \in CallIds, u \in Senders, m \in WindowEvents : Quiet /\ Receive(c, u, m)
    \/ \E c \in CallIds, ok \in BOOLEAN : MarkSeenReturns(c, ok)
    \/ \E c \in CallIds, ok \in BOOLEAN : TypingOnReturns(c, ok)
    \/ \E c \in CallIds, ok \in BOOLEAN : TypingOffReturns(c, ok)
    \/ \E c \in CallIds, ok \in BOOLEAN : RateNoticeReturns(c, ok)
    \/ \E c \in CallIds, ok \in BOOLEAN : ErrorNoticeReturns(c, ok)
    \/ \E c \in CallIds : Return(c)
    \/ \E d \in Steps : Tick(d)
    \/ Sweep

SpecWindow == InitWindow /\ [][NextWindow]_vars

-----------------------------------------------------------------------------
(* The webhook handler's POST branch: one handleMessage call per messaging *)
(* event of the batch, each inside its own try/catch, all of them started  *)
(* before the handler first yields; the response is sent when every call   *)
(* has settled.  Call c handles the c-th event of the batch.               *)

BatchEvent(u, m) == [sender |-> u, message |-> m]

Batches(E) ==
    UNION {[1..n -> {BatchEvent(u, m) : u \in Senders, m \in E}] : n \in 1..MaxCalls}

Pending == [senderId |-> None, status |-> "pending", error |-> None]

\* what the handler reports for a settled call
Outcome(call) ==
    [senderId |-> call.sender,
     status |-> IF call.thrown = None THEN "success" ELSE "error",
     error |-> call.thrown]

\* a POST request with a batch of events arrives
Post(evs) ==
    /\ webhook = NoBatch \/ webhook.status # 0
    /\ Quiet
    /\ webhook' = [events |-> evs, outcomes |-> [i \in 1..Len(evs) |-> Pending],
                   status |-> 0, responses |-> << >>]
    /\ UNCHANGED <<flow, userSessions, heap, calls, history, built>>

\* the handler invokes handleMessage for the next event of the batch
Dispatch(i) ==
    /\ webhook.status = 0
    /\ i \in 1..Len(webhook.events)
    /\ webhook.outcomes[i] = Pending
    /\ Receive(i, webhook.events[i].sender, webhook.events[i].message)

\* every event of the batch has been handed to handleMessage
Dispatched ==
    \A i \in 1..Len(webhook.events) :
        calls[i].pc # "idle" \/ webhook.outcomes[i] # Pending

\* mutant: handleMessage is awaited outside a try/catch, so that a failed call
\* rejects Promise.all and the handler answers 500
SettleUnguarded(c) ==
    /\ calls[c].pc = "done"
    /\ c \in 1..Len(webhook.events)
    /\ webhook' = IF calls[c].thrown = None
                  THEN [webhook EXCEPT !.outcomes[c] = Outcome(calls[c])]
                  ELSE [webhook EXCEPT !.status = 500]
    /\ calls' = [calls EXCEPT ![c] = Idle]
    /\ heap' = Collect(heap, userSessions, calls')
    /\ UNCHANGED <<flow, userSessions, history, built>>

\* the call of one event settles: the handler's try/catch turns it into the
\* event's entry of the response
Settle(c) ==
    /\ calls[c].pc = "done"
    /\ c \in 1..Len(webhook.events)
    /\ webhook' = [webhook EXCEPT !.outcomes[c] = Outcome(calls[c])]
    /\ calls' = [calls EXCEPT ![c] = Idle]
    /\ heap' = Collect(heap, userSessions, calls')
    /\ UNCHANGED <<flow, userSessions, history, built>>

\* Promise.all resolves and the handler answers 200 with the list of outcomes
Respond ==
    /\ webhook.status = 0
    /\ webhook.events # << >>
    /\ \A i \in 1..Len(webhook.events) : webhook.outcomes[i] # Pending
    /\ webhook' = [webhook EXCEPT !.status = 200, !.responses = webhook.outcomes]
    /\ UNCHANGED <<flow, userSessions, heap, calls, history, built>>

InitBatch ==
    /\ TypeInit /\ flow = MainFlow /\ history = NoHistory
    /\ webhook = NoBatch /\ built = NotBuilt

BatchEvents == {OtherEvent, PostbackEvent("b1")}

\* batches of events handled concurrently: the calls interleave at their awaits
NextBatch ==
    \/ \E evs \in Batches(BatchEvents) : Post(evs)
    \/ \E i \in CallIds : Dispatch(i)
    \/ \E c \in CallIds : Dispatched /\ MarkSeenReturns(c, TRUE)
    \/ \E c \in CallIds : Dispatched /\ TypingOnReturns(c, TRUE)
    \/ \E c \in CallIds, ok \in BOOLEAN : Dispatched /\ SendTemplateReturns(c, ok)
    \/ \E c \in CallIds : Dispatched /\ TypingOffReturns(c, TRUE)
    \/ \E c \in CallIds, ok \in BOOLEAN : Dispatched /\ RateNoticeReturns(c, ok)
    \/ \E c \in CallIds, ok \in BOOLEAN : Dispatched /\ ErrorNoticeReturns(c, ok)
    \/ \E c \in CallIds : Dispatched /\ Settle(c)
    \/ Dispatched /\ Respond

SpecBatch == InitBatch /\ [][NextBatch]_vars

\* the same, with the history of admissions recorded and events that carry
\* neither a postback nor a text
NextRace ==
    \/ \E evs \in Batches(WindowEvents) : Post(evs)
    \/ \E i \in CallIds : Dispatch(i)
    \/ \E c \in CallIds : Dispatched /\ MarkSeenReturns(c, TRUE)
    \/ \E c \in CallIds : Dispatched /\ TypingOnReturns(c, TRUE)
    \/ \E c \in CallIds : Dispatched /\ TypingOffReturns(c, TRUE)
    \/ \E c \in CallIds, ok \in BOOLEAN : Dispatched /\ RateNoticeReturns(c, ok)
    \/ \E c \in CallIds, ok \in BOOLEAN : Dispatched /\ ErrorNoticeReturns(c, ok)
    \/ \E c \in CallIds : Dispatched /\ Settle(c)
    \/ Dispatched /\ Respond

SpecRace == InitWindow /\ [][NextRace]_vars

\* batches whose events move the session: two postbacks that lead to different
\* nodes, and a text whose target depends on the current node
OverlapEvents == {PostbackEvent("b1"), PostbackEvent("b2"), TextEvent("NEXT")}

NextOverlap ==
    \/ \E evs \in Batches(OverlapEvents) : Post(evs)
    \/ \E i \in CallIds : Dispatch(i)
    \/ \E c \in CallIds : Dispatched /\ MarkSeenReturns(c, TRUE)
    \/ \E c \in CallIds : Dispatched /\ TypingOnReturns(c, TRUE)
    \/ \E c \in CallIds, ok \in BOOLEAN : Dispatched /\ SendTemplateReturns(c, ok)
    \/ \E c \in CallIds : Dispatched /\ TypingOffReturns(c, TRUE)
    \/ \E c \in CallIds, ok \in BOOLEAN : Dispatched /\ RateNoticeReturns(c, ok)
    \/ \E c \in CallIds, ok \in BOOLEAN : Dispatched /\ ErrorNoticeReturns(c, ok)
    \/ \E c \in CallIds : Dispatched /\ Settle(c)
    \/ Dispatched /\ Respond

SpecOverlap == InitBatch /\ [][NextOverlap]_vars

-----------------------------------------------------------------------------
(* The engine with the clock advancing only between calls: every gateway   *)
(* call is given up after 5 seconds, so a handleMessage call is short next *)
(* to the clock's resolution, while the cleanup callback may run at any of *)
(* the call's awaits                                                       *)

NextSweep ==
    \/ \E c \in CallIds, u \in Senders, m \in Events : Quiet /\ Receive(c, u, m)
    \/ \E c \in CallIds, ok \in BOOLEAN : MarkSeenReturns(c, ok)
    \/ \E c \in CallIds, ok \in BOOLEAN : TypingOnReturns(c, ok)
    \/ \E c \in CallIds, ok \in BOOLEAN : SendTemplateReturns(c, ok)
    \/ \E c \in CallIds, ok \in BOOLEAN : TypingOffReturns(c, ok)
    \/ \E c \in CallIds, ok \in BOOLEAN : RateNoticeReturns(c, ok)
    \/ \E c \in CallIds, ok \in BOOLEAN : ErrorNoticeReturns(c, ok)
    \/ \E c \in CallIds : Return(c)
    \/ \E d \in Steps : Quiet /\ Tick(d)
    \/ Sweep

SpecSweep == InitBatch /\ [][NextSweep]_vars

-----------------------------------------------------------------------------
(* The Message Template Builder and the gateway's message preparation on   *)
(* their own: what handleMessage does with the node it transitions to,     *)
(* for nodes of every shape                                                *)

RECURSIVE Repeat(_, _)
Repeat(s, n) ==
    IF n = 0 THEN ""
    ELSE IF n % 2 = 0 THEN LET h == Repeat(s, n \div 2) IN h \o h
    ELSE s \o Repeat(s, n - 1)

\* lengths of an over-long body and of an over-long button label
BodyLength == 2500

TitleLength == 30

BuildTexts ==
    {"", "Hi", Repeat("x", maxTextLength), Repeat("x", maxTextLength + 1),
     Repeat("y", BodyLength)}

BuildButtons ==
    {<< >>,
     <<Button("p1", "Go")>>,
     <<Button("p1", Repeat("t", TitleLength)), Button("p2", ""),
       Button("p3", Repeat("u", maxButtonTitleLength))>>,
     <<Button("p1", "Go"), Button("p2", Repeat("t", TitleLength)),
       Button("p3", Repeat("u", maxButtonTitleLength + 1)), Button("p4", "More")>>}

BuildTypes == {"messengerTextVue", "messengerVideoVue", "messengerImageVue"}

FirstItems ==
    {Item(type, text, buttons, url, link, number) :
        type \in BuildTypes, text \in BuildTexts, buttons \in BuildButtons,
        url \in {"", "https://v.example/1.mp4"}, link \in {"", "https://l.example/1"},
        number \in {"", "7"}}

LaterItems ==
    {<< >>, <<TextItem("Later", <<Button("q1", "Later")>>)>>,
     <<VideoItem("https://v.example/2.mp4", "", "")>>}

BuildNodes ==
    {Node("N", << >>)} \cup {Node("N", <<first>> \o later) : first \in FirstItems, later \in LaterItems}

\* createTemplateFromNode is applied to the node
CreateTemplate ==
    /\ built.stage = "node"
    /\ built' = [built EXCEPT !.stage = "template",
                              !.template = createTemplateFromNode(built.node)]
    /\ UNCHANGED <<flow, userSessions, heap, calls, history, webhook>>

\* sendTemplate prepares the message it hands to sendMessage
SendTemplate ==
    /\ built.stage = "template"
    /\ built' = [built EXCEPT !.stage = "message",
                              !.message = sendTemplateMessage(built.template)]
    /\ UNCHANGED <<flow, userSessions, heap, calls, history, webhook>>

InitBuild ==
    /\ TypeInit /\ flow = MainFlow /\ history = NoHistory /\ webhook = NoBatch
    /\ built \in {[NotBuilt EXCEPT !.stage = "node", !.node = n] : n \in BuildNodes}

NextBuild == CreateTemplate \/ SendTemplate

SpecBuild == InitBuild /\ [][NextBuild]_vars

-----------------------------------------------------------------------------
(* Vocabulary of the properties, stated on the flow document itself *)

IsNode(id) == \E i \in 1..Len(flow.messages) : flow.messages[i].id = id

NodeOf(id) == flow.messages[CHOOSE i \in 1..Len(flow.messages) : flow.messages[i].id = id]

FirstNodeId == flow.messages[1].id

EdgesFrom(src) == {i \in 1..Len(flow.edges) : flow.edges[i].source = src}

\* the target of the first edge, in declared order, whose source is src
FirstEdgeTarget(src) ==
    flow.edges[CHOOSE i \in EdgesFrom(src) : \A j \in EdgesFrom(src) : i <= j].target

\* the edges from src whose target is a declared node
ResolvableFrom(src) == {i \in EdgesFrom(src) : IsNode(flow.edges[i].target)}

FirstResolvableTarget(src) ==
    flow.edges[CHOOSE i \in ResolvableFrom(src) : \A j \in ResolvableFrom(src) : i <= j].target

SameChar(a, b) ==
    \/ a = b
    \/ \E i \in 1..Len(UpperChars) : {a, b} = {UpperChars[i], LowerChars[i]}

EqualIgnoringCase(s, t) ==
    /\ Len(s) = Len(t)
    /\ \A i \in 1..Len(s) : SameChar(SubSeq(s, i, i), SubSeq(t, i, i))

ButtonsOf(id) ==
    IF IsNode(id) /\ NodeOf(id).items # << >> THEN NodeOf(id).items[1].buttons ELSE << >>

LabelHits(id, text) ==
    {i \in 1..Len(ButtonsOf(id)) : EqualIgnoringCase(ButtonsOf(id)[i].text, text)}

\* the id of the first button of node id whose label is the text up to case
FirstLabelHit(id, text) ==
    ButtonsOf(id)[CHOOSE i \in LabelHits(id, text) : \A j \in LabelHits(id, text) : i <= j].id

SessionOf(c) == heap[calls[c].session]

\* the call was admitted and has done its node resolution
Routed(c) ==
    calls[c].admitted /\ calls[c].pc \in {"sendTemplate", "typingOff", "errorNotice", "done"}

IsTemplate(e) == e.site = "template"

\* the node templates the call handed to the gateway
Templates(c) == SelectSeq(calls[c].trace, IsTemplate)

\* the dispatch of node id's template to the call's sender
DispatchOf(c, id) ==
    Sent("template", calls[c].sender, sendTemplateMessage(createTemplateFromNode(NodeOf(id))))

\* the call moved its session to node id and dispatched exactly that node's template
TransitionedTo(c, id) ==
    /\ SessionOf(c).currentNode = id
    /\ Templates(c) = <<DispatchOf(c, id)>>

\* the call dispatched no node template and left the current node alone
NoTransition(c) ==
    /\ SessionOf(c).currentNode = calls[c].pre.currentNode
    /\ Templates(c) = << >>

IsPostback(c) == calls[c].message.postback # ""

IsText(c) == calls[c].message.postback = "" /\ calls[c].message.text # ""

-----------------------------------------------------------------------------
(* C1: in every reachable state the current node of every session in the   *)
(* registry is the id of a node of the loaded flow.                        *)
C1_CurrentNodeExists ==
    \A u \in Senders :
        userSessions[u] # 0 => IsNode(heap[userSessions[u]].currentNode)

\* an event whose target is no node has been handled and the session stands on B
C1_Witness ==
    \E c \in CallIds :
        /\ calls[c].pc = "done" /\ calls[c].admitted
        /\ calls[c].message = PostbackEvent("b4")
        /\ userSessions[calls[c].sender] = calls[c].session
        /\ SessionOf(c).currentNode = "B"

(* C2: an admitted postback with payload p takes the target of the first   *)
(* edge whose source is p; if that target is a node, the session's current *)
(* node becomes it and exactly one template, that node's, goes to the      *)
(* sender.                                                                 *)
C2_PostbackTransition ==
    \A c \in CallIds :
        (Routed(c) /\ IsPostback(c) /\ EdgesFrom(calls[c].message.postback) # {}
         /\ IsNode(FirstEdgeTarget(calls[c].message.postback)))
        => TransitionedTo(c, FirstEdgeTarget(calls[c].message.postback))

\* postback b1 (edges b1->B, b1->C) has been handled from node A
C2_Witness ==
    \E c \in CallIds :
        /\ calls[c].pc = "done" /\ calls[c].thrown = None
        /\ calls[c].message = PostbackEvent("b1")
        /\ calls[c].pre.currentNode = "A"
        /\ SessionOf(c).currentNode = "B"

\* the admitted text event of call c matches a button of the node it arrived at
TextMatches(c) ==
    IsText(c) /\ LabelHits(calls[c].pre.currentNode, calls[c].message.text) # {}

MatchedButton(c) == FirstLabelHit(calls[c].pre.currentNode, calls[c].message.text)

(* C3 as claimed: a text matching a button transitions to the first target, *)
(* among the button's edges in declared order, that is an existing node.    *)
C3_FirstResolvableTarget ==
    \A c \in CallIds :
        (Routed(c) /\ TextMatches(c) /\ ResolvableFrom(MatchedButton(c)) # {})
        => TransitionedTo(c, FirstResolvableTarget(MatchedButton(c)))

(* C3 amended: a text matching a button (first button in declared order,    *)
(* ignoring case) transitions to the target of the button's first edge when *)
(* that target is an existing node.                                         *)
C3_FirstEdgeTarget ==
    \A c \in CallIds :
        (Routed(c) /\ TextMatches(c) /\ EdgesFrom(MatchedButton(c)) # {}
         /\ IsNode(FirstEdgeTarget(MatchedButton(c))))
        => TransitionedTo(c, FirstEdgeTarget(MatchedButton(c)))

\* the text NEXT, which is the label of b1 and of b2 up to case, has led from A to B
C3_Witness ==
    \E c \in CallIds :
        /\ calls[c].pc = "done" /\ calls[c].thrown = None
        /\ calls[c].message = TextEvent("NEXT")
        /\ calls[c].pre.currentNode = "A"
        /\ SessionOf(c).currentNode = "B"

\* the admitted event resolves no target: a postback without an outgoing edge,
\* or a text that matches no button or a button without an outgoing edge
PostbackWithoutEdge(c) == IsPostback(c) /\ EdgesFrom(calls[c].message.postback) = {}

TextWithoutTarget(c) ==
    /\ IsText(c)
    /\ \/ LabelHits(calls[c].pre.currentNode, calls[c].message.text) = {}
       \/ EdgesFrom(MatchedButton(c)) = {}

(* C4 as claimed: every admitted event that resolves no target, postback or *)
(* text, restarts at the first declared node and dispatches its template.   *)
C4_AlwaysRestarts ==
    \A c \in CallIds :
        (Routed(c) /\ (PostbackWithoutEdge(c) \/ TextWithoutTarget(c)))
        => TransitionedTo(c, FirstNodeId)

(* C4 amended: an admitted text event that resolves no target restarts at   *)
(* the first declared node and dispatches its template; an admitted         *)
(* postback whose payload has no outgoing edge dispatches nothing and       *)
(* leaves the current node unchanged.                                       *)
C4_TextRestarts ==
    \A c \in CallIds :
        /\ (Routed(c) /\ TextWithoutTarget(c)) => TransitionedTo(c, FirstNodeId)
        /\ (Routed(c) /\ PostbackWithoutEdge(c)) => NoTransition(c)

\* a text has been handled at B, which has no buttons, and the session is back at A
C4_Witness ==
    \E c \in CallIds :
        /\ calls[c].pc = "done" /\ calls[c].thrown = None
        /\ calls[c].message = TextEvent("hello")
        /\ calls[c].pre.currentNode = "B"
        /\ TransitionedTo(c, "A")

\* the id the event resolves to, when it resolves to one: the first edge target
\* of the payload or of the matched button
HasTarget(c) ==
    \/ IsPostback(c) /\ EdgesFrom(calls[c].message.postback) # {}
    \/ TextMatches(c) /\ EdgesFrom(MatchedButton(c)) # {}

TargetOf(c) ==
    IF IsPostback(c) THEN FirstEdgeTarget(calls[c].message.postback)
    ELSE FirstEdgeTarget(MatchedButton(c))

(* C5: when the resolved target id is no node of the graph, handleMessage   *)
(* dispatches no template, leaves the current node unchanged, still sends   *)
(* typing-off and completes without error.                                  *)
C5_UnknownTargetIsNoOp ==
    \A c \in CallIds :
        (Routed(c) /\ HasTarget(c) /\ ~IsNode(TargetOf(c)))
        => /\ NoTransition(c)
           /\ calls[c].pc \in {"typingOff", "done"}
           /\ calls[c].trace[Len(calls[c].trace)] =
                 Sent("typingOff", calls[c].sender, SenderAction("typing_off"))
           /\ calls[c].error = None /\ calls[c].thrown = None

\* the text Lost, label of b4 whose first edge leads to the undeclared Z, was handled
C5_Witness ==
    \E c \in CallIds :
        /\ calls[c].pc = "done" /\ calls[c].message = TextEvent("Lost")
        /\ calls[c].pre.currentNode = "A" /\ calls[c].admitted

\* call c starts in this step, with a session
Starts(c) == calls[c].pc = "idle" /\ calls'[c].pc # "idle" /\ calls'[c].session # 0

\* the messageCount and lastInteraction age the starting call's sender has before
\* the event: those of its session, or of the session getUserSession creates
CountBefore(c) ==
    IF userSessions[calls'[c].sender] = 0 THEN 0
    ELSE heap[userSessions[calls'[c].sender]].messageCount

AgeBefore(c) ==
    IF userSessions[calls'[c].sender] = 0 THEN 0
    ELSE heap[userSessions[calls'[c].sender]].lastInteraction

\* the count the rate check evaluates: 0 when lastInteraction is more than 60 s old
CountChecked(c) == IF AgeBefore(c) > 60 * 1000 THEN 0 ELSE CountBefore(c)

(* C6: the rate check evaluates the pre-event state: messageCount is first  *)
(* reset to 0 if lastInteraction is more than 60 s before now, and the      *)
(* event is admitted if and only if the count is then below 20.             *)
C6_RateCheck ==
    [][\A c \in CallIds :
          Starts(c) => /\ calls'[c].admitted = (CountChecked(c) < 20)
                       /\ heap'[calls'[c].session].messageCount = CountChecked(c)]_vars

\* an event was admitted on a session that stood at count 20: the window had elapsed
C6_Witness ==
    \E c \in CallIds :
        /\ calls[c].pc = "markSeen" /\ calls[c].admitted
        /\ calls[c].pre.messageCount = 20
        /\ SessionOf(c).messageCount = 0

\* the call was rejected by the rate limiter
Rejected(c) == calls[c].pc # "idle" /\ calls[c].session # 0 /\ ~calls[c].admitted

RateNoticeTo(u) == Sent("rateNotice", u, [text |-> RateLimitNotice])

ErrorNoticeTo(u) == Sent("errorNotice", u, [text |-> ErrorNotice])

\* the rejected call left currentNode and messageCount as it found them
RejectedKeepsSession(c) ==
    /\ calls[c].touches = << >>
    /\ SessionOf(c).currentNode = calls[c].pre.currentNode
    /\ SessionOf(c).messageCount = calls[c].pre.messageCount

(* C7 as claimed: for a rejected event the rate-limit notice is the only    *)
(* gateway call, and currentNode and messageCount are left unchanged.       *)
C7_OnlyRateNotice ==
    \A c \in CallIds :
        Rejected(c) => /\ calls[c].trace = <<RateNoticeTo(calls[c].sender)>>
                       /\ RejectedKeepsSession(c)

\* the gateway calls of a rejected call: the rate-limit notice and, after its
\* delivery failed, one error notice
RejectedCalls(c) ==
    \/ calls[c].trace = <<RateNoticeTo(calls[c].sender)>> /\ calls[c].error = None
    \/ /\ calls[c].trace = <<RateNoticeTo(calls[c].sender), ErrorNoticeTo(calls[c].sender)>>
       /\ calls[c].error = "DeliveryError"

(* C7 amended: for a rejected event the gateway calls are the rate-limit    *)
(* notice and, only when its delivery fails, one error notice after it      *)
(* (never mark-seen, typing-on, typing-off or a node template); the         *)
(* session's currentNode, messageCount and lastInteraction stay unchanged.  *)
C7_RejectionFrame ==
    [][\A c \in CallIds :
          Rejected(c)' =>
             /\ RejectedCalls(c)' /\ RejectedKeepsSession(c)'
             /\ calls[c].pc = "idle" =>
                   /\ userSessions[calls'[c].sender] = calls'[c].session
                   /\ heap'[calls'[c].session] = heap[calls'[c].session]
             /\ (calls[c].pc # "idle" /\ calls' # calls) =>
                   heap'[calls'[c].session] = heap[calls'[c].session]]_vars

\* the 21st event of a burst was rejected and its notice delivered
C7_Witness ==
    \E c \in CallIds :
        /\ calls[c].pc = "done" /\ Rejected(c)
        /\ calls[c].trace = <<RateNoticeTo(calls[c].sender)>>
        /\ calls[c].pre.messageCount = 20

\* call c completes in this step, with a session
Completes(c) == calls[c].pc # "done" /\ calls'[c].pc = "done" /\ calls'[c].session # 0

\* call c is in flight before and after this step, which is a step of the call
Proceeds(c) ==
    /\ calls[c].pc # "idle" /\ calls[c].session # 0
    /\ calls'[c].pc # "idle" /\ calls'[c] # calls[c]

\* call c touches its session in this step
Touches(c) == calls'[c].touches # calls[c].touches

HandledWithoutError(c) == calls[c].admitted /\ calls[c].thrown = None

(* C9 as claimed: an event admitted and handled without error ends with     *)
(* messageCount one above its value before the event and is touched once;   *)
(* a rejected event or one whose handling raises ends with messageCount as  *)
(* it was before the event and is not touched.                              *)
C9_CountMovesOnlyByTouch ==
    [][\A c \in CallIds :
          /\ Completes(c) =>
                IF HandledWithoutError(c)'
                THEN /\ Len(calls'[c].touches) = 1
                     /\ SessionOf(c)'.messageCount = calls'[c].pre.messageCount + 1
                ELSE /\ calls'[c].touches = << >>
                     /\ SessionOf(c)'.messageCount = calls'[c].pre.messageCount
          /\ (Proceeds(c) /\ Touches(c)) => SessionOf(c)'.lastInteraction = 0
          /\ (Proceeds(c) /\ ~Touches(c)) =>
                SessionOf(c)'.lastInteraction = SessionOf(c).lastInteraction]_vars

(* C9 amended: touch is applied exactly once per successfully routed event: *)
(* an event admitted and handled without error raises messageCount by       *)
(* exactly 1 over the value the rate check left (0 if the rate window had   *)
(* elapsed, the previous count otherwise) and sets lastInteraction to the   *)
(* handling time; a rejected event or one whose handling raises is never    *)
(* touched: lastInteraction is unchanged, and messageCount is changed only  *)
(* by the rate check's reset to 0.                                          *)
C9_TouchOncePerRoutedEvent ==
    [][\A c \in CallIds :
          /\ Starts(c) => /\ calls'[c].checked = CountChecked(c)
                          /\ SessionOf(c)'.messageCount = CountChecked(c)
                          /\ SessionOf(c)'.lastInteraction = AgeBefore(c)
          /\ Completes(c) =>
                IF HandledWithoutError(c)'
                THEN /\ Len(calls'[c].touches) = 1
                     /\ SessionOf(c)'.messageCount = calls'[c].checked + 1
                ELSE /\ calls'[c].touches = << >>
                     /\ SessionOf(c)'.messageCount = calls'[c].checked
          /\ (Proceeds(c) /\ Touches(c)) =>
                /\ SessionOf(c)'.lastInteraction = 0
                /\ SessionOf(c)'.messageCount = SessionOf(c).messageCount + 1
          /\ (Proceeds(c) /\ ~Touches(c)) =>
                /\ SessionOf(c)'.lastInteraction = SessionOf(c).lastInteraction
                /\ SessionOf(c)'.messageCount = SessionOf(c).messageCount]_vars

\* an event that found the count at 5 after the window had elapsed was handled
\* without error and left the count at 1
C9_Witness ==
    \E c \in CallIds :
        /\ calls[c].pc = "done" /\ HandledWithoutError(c)
        /\ calls[c].pre.messageCount = 5
        /\ Len(calls[c].touches) = 1
        /\ SessionOf(c).messageCount = 1

Sites(c) == [i \in 1..Len(calls[c].trace) |-> calls[c].trace[i].site]

(* C10: an admitted event handled without error makes its side effects in   *)
(* the order mark-seen, typing-on, template dispatch (if any), session      *)
(* touch, typing-off: messageCount is never incremented before the          *)
(* template's dispatch has completed, and typing-off is the last gateway    *)
(* call.                                                                    *)
C10_SideEffectOrder ==
    \A c \in CallIds :
        calls[c].admitted =>
           /\ calls[c].pc \in {"markSeen", "typingOn", "sendTemplate"} =>
                 /\ calls[c].touches = << >>
                 /\ SessionOf(c).messageCount = calls[c].checked
           /\ (calls[c].pc = "done" /\ calls[c].thrown = None) =>
                 /\ Sites(c) \in {<<"markSeen", "typingOn", "template", "typingOff">>,
                                  <<"markSeen", "typingOn", "typingOff">>}
                 /\ calls[c].touches = <<Len(calls[c].trace) - 1>>
                 /\ SessionOf(c).messageCount = calls[c].checked + 1

\* an event with a template dispatch was handled without error
C10_Witness ==
    \E c \in CallIds :
        /\ calls[c].pc = "done" /\ HandledWithoutError(c)
        /\ Sites(c) = <<"markSeen", "typingOn", "template", "typingOff">>
        /\ calls[c].touches = <<3>>

RECURSIVE SumOf(_)
SumOf(h) == IF h = {} THEN 0 ELSE LET p == CHOOSE q \in h : TRUE IN p[2] + SumOf(h \ {p})

\* the events of sender u admitted during the last 60 seconds
AdmittedInWindow(u) == SumOf(history.admits[u])

(* C8: the limiter is a sliding-window counter: an event is never rejected  *)
(* when fewer than 20 events of its sender were admitted during the 60      *)
(* seconds preceding it.                                                    *)
C8_SlidingWindow ==
    [][\A c \in CallIds :
          (Starts(c) /\ ~calls'[c].admitted) => AdmittedInWindow(calls'[c].sender) >= 20]_vars

\* the error notices the call handed to the gateway
IsErrorNotice(e) == e.site = "errorNotice"

ErrorNotices(c) == SelectSeq(calls[c].trace, IsErrorNotice)

\* a step of the call after the rate check has raised (the rate-limit notice's
\* delivery, or the node template's)
RaisedAfterCheck(c) == calls[c].session # 0 /\ calls[c].error # None

(* C11: when a step of handleMessage after the rate check raises, exactly   *)
(* one error notice is handed to the gateway for that sender, and           *)
(* handleMessage fails to its caller with the exception that was raised.    *)
C11_RethrowsOriginal ==
    \A c \in CallIds :
        RaisedAfterCheck(c) =>
           /\ ErrorNotices(c) = <<ErrorNoticeTo(calls[c].sender)>>
           /\ calls[c].pc = "done" => calls[c].thrown = calls[c].error

\* the node the admitted event resolves to: the first edge target of the payload
\* or of the matched button, or the first declared node for a text without one
ResolvedTarget(c) == IF HasTarget(c) THEN TargetOf(c) ELSE FirstNodeId

\* the delivery of the call's node template has failed
TemplateFailed(c) ==
    calls[c].admitted /\ calls[c].pc \in {"errorNotice", "done"} /\ calls[c].error # None

(* C12: after the delivery of a node template has failed, the session's     *)
(* currentNode is the resolved target node, as set before the dispatch, and *)
(* the node template was handed to the gateway once for that event.         *)
C12_NoRollbackNoRetry ==
    \A c \in CallIds :
        TemplateFailed(c) =>
           /\ SessionOf(c).currentNode = ResolvedTarget(c)
           /\ Templates(c) = <<DispatchOf(c, ResolvedTarget(c))>>

\* the template of B, reached from A by postback b1, was not delivered and the
\* session stands on B
C12_Witness ==
    \E c \in CallIds :
        /\ calls[c].pc = "done" /\ TemplateFailed(c)
        /\ calls[c].message = PostbackEvent("b1")
        /\ calls[c].pre.currentNode = "A"
        /\ SessionOf(c).currentNode = "B"

\* the admitted event resolves to a node of the graph
WillTransition(c) ==
    \/ HasTarget(c) /\ IsNode(TargetOf(c))
    \/ IsText(c) /\ ~HasTarget(c)

ControlSites == {"markSeen", "typingOn", "typingOff"}

(* C16: failures of mark-seen, typing-on and typing-off are never           *)
(* escalated: whichever of them fail, an admitted event raises only when    *)
(* the delivery of its node template fails, and otherwise resolves the same *)
(* target, dispatches the same template, touches the session once and       *)
(* completes without error.                                                 *)
C16_ControlFailuresSwallowed ==
    \A c \in CallIds :
        calls[c].admitted =>
           /\ calls[c].swallowed \subseteq ControlSites
           /\ calls[c].error # None =>
                 /\ Len(calls[c].trace) >= 2
                 /\ Sites(c)[Len(calls[c].trace) - 1] = "template"
           /\ (calls[c].pc = "done" /\ calls[c].error = None) =>
                 /\ calls[c].thrown = None
                 /\ Len(calls[c].touches) = 1
                 /\ IF WillTransition(c) THEN TransitionedTo(c, ResolvedTarget(c))
                    ELSE NoTransition(c)

\* all three control operations failed for postback b1, which still led from A
\* to B and completed without error
C16_Witness ==
    \E c \in CallIds :
        /\ calls[c].pc = "done" /\ calls[c].admitted
        /\ calls[c].swallowed = ControlSites
        /\ calls[c].message = PostbackEvent("b1") /\ calls[c].pre.currentNode = "A"
        /\ TransitionedTo(c, "B")
        /\ Len(calls[c].touches) = 1 /\ calls[c].thrown = None

\* the cleanup callback runs in this step
SweepRuns == ~history.swept /\ history'.swept

\* sender u has a session in the registry that was last touched more than 30
\* minutes ago
IdleTooLong(u) ==
    userSessions[u] # 0 /\ heap[userSessions[u]].lastInteraction > 30 * 60 * 1000

(* C14: a run of the periodic sweep removes from the registry every session *)
(* whose lastInteraction is more than 30 minutes before the sweep time,     *)
(* keeps every other session in the registry with all its fields unchanged, *)
(* and changes nothing else.                                                *)
C14_SweepEvicts ==
    [][SweepRuns =>
          /\ \A u \in Senders :
                IF IdleTooLong(u) THEN userSessions'[u] = 0
                ELSE /\ userSessions'[u] = userSessions[u]
                     /\ userSessions[u] # 0 => heap'[userSessions[u]] = heap[userSessions[u]]
          /\ \A c \in CallIds :
                calls[c].session # 0 => heap'[calls[c].session] = heap[calls[c].session]
          /\ calls' = calls /\ flow' = flow]_vars

\* the sweep has run over a session last touched exactly 30 minutes ago, which
\* is still in the registry
C14_Witness ==
    \E u \in Senders :
        /\ history.swept /\ userSessions[u] # 0
        /\ heap[userSessions[u]].lastInteraction = 30 * 60 * 1000
        /\ heap[userSessions[u]].messageCount > 0

\* handleMessage is invoked for call c in this step
Invoked(c) == calls[c].pc = "idle" /\ calls'[c].pc # "idle"

(* C15: for every flow that passes load validation, the first event of a    *)
(* sender without a session creates one with currentNode = the first        *)
(* declared node, messageCount = 0 and lastInteraction = now, and this      *)
(* never fails; a sender that has a session gets that same session back     *)
(* (the rate check that follows may reset its messageCount).                *)
C15_CreationNeverFails ==
    [][\A c \in CallIds :
          Invoked(c) =>
             /\ calls'[c].error = None
             /\ userSessions'[calls'[c].sender] # 0
             /\ calls'[c].session = userSessions'[calls'[c].sender]
             /\ IF userSessions[calls'[c].sender] = 0
                THEN SessionOf(c)' = [currentNode |-> FirstNodeId, lastInteraction |-> 0,
                                      messageCount |-> 0]
                ELSE /\ userSessions'[calls'[c].sender] = userSessions[calls'[c].sender]
                     /\ SessionOf(c)' = [heap[calls'[c].session] EXCEPT
                                            !.messageCount = CountChecked(c)]]_vars

\* the handler takes the settled call of the batch's c-th event in this step
Settles(c) == calls[c].pc = "done" /\ calls'[c].pc = "idle"

\* what is reported for a call: its sender, and success unless the call failed
Reported(call) ==
    [senderId |-> call.sender,
     status |-> IF call.thrown # None THEN "error" ELSE "success",
     error |-> call.thrown]

\* the handler answers the batch in this step
Answers == webhook.status = 0 /\ webhook'.status # 0

(* C13: failures in a webhook batch are isolated: every event of the batch  *)
(* is handed to handleMessage and gets its own reported outcome, success or *)
(* error; a failing call changes neither the other calls nor the other      *)
(* outcomes, and the batch is answered 200 with one outcome per event,      *)
(* never with a single failure response.                                    *)
C13_BatchIsolation ==
    [][/\ \A c \in CallIds :
             Settles(c) =>
                /\ webhook'.status = 0
                /\ webhook'.events = webhook.events
                /\ webhook'.outcomes = [webhook.outcomes EXCEPT ![c] = Reported(calls[c])]
                /\ \A d \in CallIds \ {c} : calls'[d] = calls[d]
       /\ Answers =>
             /\ webhook'.status = 200
             /\ Len(webhook'.responses) = Len(webhook.events)
             /\ \A i \in 1..Len(webhook.events) :
                   /\ webhook'.responses[i] = webhook.outcomes[i]
                   /\ webhook'.responses[i].senderId = webhook.events[i].sender
                   /\ webhook'.responses[i].status \in {"success", "error"}]_vars

\* a batch of two events was answered: the first one failed, the second one
\* was handled and reported as a success
C13_Witness ==
    /\ webhook.status = 200
    /\ Len(webhook.responses) = 2
    /\ webhook.responses[1].status = "error"
    /\ webhook.responses[2].status = "success"
    /\ webhook.events[2].message = PostbackEvent("b1")

(* C20: the rate limit bounds the counter under concurrent dispatch: every  *)
(* session's messageCount is at most 20, and at most 20 events of one       *)
(* sender are admitted within 60 seconds, also when events of one sender    *)
(* from one batch interleave at the awaits between the rate check and the   *)
(* session touch.                                                           *)
C20_CountBounded ==
    /\ \A o \in ObjIds : heap[o].messageCount <= 20
    /\ \A u \in Senders : AdmittedInWindow(u) <= 20

\* the first item of the node handed to the builder
BuiltItem == built.node.items[1]

IsTextItem == built.node.items # << >> /\ BuiltItem.type = "messengerTextVue"

IsVideoItem == built.node.items # << >> /\ BuiltItem.type = "messengerVideoVue"

\* the postback button the builder makes of a flow button
PostbackOf(button) == [type |-> "postback", title |-> button.text, payload |-> button.id]

\* the one card of the generic template of a video item with an external link
VideoCard(item) ==
    [title |-> IF item.number = "" THEN "Video" ELSE item.number,
     subtitle |-> "Click to watch",
     default_action |-> [type |-> "web_url", url |-> item.link],
     buttons |-> <<[type |-> "web_url", url |-> item.link, title |-> "Watch Video"]>>]

(* C17: the builder selects the template from the node's first item only:   *)
(* no first item -> the 'not configured' text; text item with buttons ->    *)
(* button template; text item without buttons -> plain text; video item     *)
(* with a direct URL -> media template with a video attachment at that URL, *)
(* also when a link is present; video item with a link and no URL ->        *)
(* generic template with one card titled by the number, or 'Video'; every   *)
(* other combination -> the 'don't understand' text.                        *)
C17_BuildPolicy ==
    built.stage \in {"template", "message"} =>
        IF built.node.items = << >>
        THEN built.template = [template_type |-> "text",
                               text |-> "Sorry, this message is not properly configured."]
        ELSE IF IsTextItem /\ Len(BuiltItem.buttons) >= 1
        THEN /\ built.template.template_type = "button"
             /\ built.template.text = BuiltItem.text
             /\ Len(built.template.buttons) = Len(BuiltItem.buttons)
             /\ \A i \in 1..Len(BuiltItem.buttons) :
                   built.template.buttons[i] = PostbackOf(BuiltItem.buttons[i])
        ELSE IF IsTextItem
        THEN built.template = [template_type |-> "text", text |-> BuiltItem.text]
        ELSE IF IsVideoItem /\ BuiltItem.video_url # ""
        THEN built.template =
                [template_type |-> "media",
                 attachment |-> [type |-> "video", payload |-> [url |-> BuiltItem.video_url]]]
        ELSE IF IsVideoItem /\ BuiltItem.link # ""
        THEN built.template = [template_type |-> "generic", elements |-> <<VideoCard(BuiltItem)>>]
        ELSE built.template = [template_type |-> "text",
                               text |-> "Sorry, I don't understand that message type."]

\* a media template was built of a video item with both a URL and a link, which
\* is followed by a text item with a button
C17_Witness ==
    /\ built.stage = "template"
    /\ Len(built.node.items) = 2
    /\ IsVideoItem /\ BuiltItem.video_url # "" /\ BuiltItem.link # ""
    /\ built.node.items[2].type = "messengerTextVue"
    /\ built.template.template_type = "media"

\* the first n characters of s
Truncated(s, n) == IF Len(s) <= n THEN s ELSE SubSeq(s, 1, n)

\* the text sent in place of a template that could not be prepared
FallbackMessage ==
    [text |-> "Sorry, I encountered an error preparing the message. Please try again."]

(* C18 as claimed: for every node whose first item is a text item without   *)
(* buttons, its body possibly absent or empty, the message handed to the    *)
(* gateway is a plain text message whose text is the body truncated to 2000 *)
(* characters.                                                              *)
C18_PlainTextBody ==
    (built.stage = "message" /\ IsTextItem /\ BuiltItem.buttons = << >>)
    => built.message = [text |-> Truncated(BuiltItem.text, 2000)]

(* C18 amended: for a text item without buttons and with a non-empty body   *)
(* the message is a plain text message whose text is the body truncated to  *)
(* 2000 characters; with an absent or empty body the message is the plain   *)
(* text 'error preparing the message' fallback.                             *)
C18_PlainTextOrFallback ==
    (built.stage = "message" /\ IsTextItem /\ BuiltItem.buttons = << >>)
    => IF BuiltItem.text = "" THEN built.message = FallbackMessage
       ELSE built.message = [text |-> Truncated(BuiltItem.text, 2000)]

\* the message of a text item with neither body nor buttons has been prepared
C18_Witness ==
    /\ built.stage = "message" /\ IsTextItem
    /\ BuiltItem.buttons = << >> /\ BuiltItem.text = ""
    /\ built.message = FallbackMessage

\* the button at position i of the message, as the claim describes it
LimitedButton(i) ==
    [type |-> "postback", payload |-> BuiltItem.buttons[i].id,
     title |-> Truncated(BuiltItem.buttons[i].text, 20)]

\* the message is a button template within the field limits
LimitedButtonTemplate ==
    /\ DOMAIN built.message = {"attachment"}
    /\ built.message.attachment.type = "template"
    /\ built.message.attachment.payload.template_type = "button"
    /\ built.message.attachment.payload.text = Truncated(BuiltItem.text, 2000)
    /\ Len(built.message.attachment.payload.buttons) = Min(Len(BuiltItem.buttons), 3)
    /\ \A i \in 1..Min(Len(BuiltItem.buttons), 3) :
          built.message.attachment.payload.buttons[i] = LimitedButton(i)

(* C19 as claimed: for every node whose first item is a text item with      *)
(* n >= 1 buttons, the message handed to the gateway is a button template   *)
(* that carries the body truncated to 2000 characters and exactly           *)
(* min(n, 3) buttons, the node's first buttons in declared order, each a    *)
(* postback whose payload is the button id and whose title is the button    *)
(* text truncated to 20 characters.                                         *)
C19_ButtonTemplateLimits ==
    (built.stage = "message" /\ IsTextItem /\ Len(BuiltItem.buttons) >= 1)
    => LimitedButtonTemplate

(* C19 amended: the same for a text item with n >= 1 buttons and a          *)
(* non-empty body; with an absent or empty body no button template is       *)
(* dispatched: the message is the plain text 'error preparing the message'  *)
(* fallback and carries no buttons.                                         *)
C19_LimitsOrFallback ==
    (built.stage = "message" /\ IsTextItem /\ Len(BuiltItem.buttons) >= 1)
    => IF BuiltItem.text = "" THEN built.message = FallbackMessage
       ELSE LimitedButtonTemplate

\* an over-long body with four buttons, one of them with an over-long label,
\* went out with 2000 characters, three buttons and a 20-character title
C19_Witness ==
    /\ built.stage = "message" /\ IsTextItem
    /\ Len(BuiltItem.text) = BodyLength /\ Len(BuiltItem.buttons) = 4
    /\ Len(BuiltItem.buttons[2].text) = TitleLength
    /\ Len(built.message.attachment.payload.text) = 2000
    /\ Len(built.message.attachment.payload.buttons) = 3
    /\ Len(built.message.attachment.payload.buttons[2].title) = 20

(* C21: the sweep never loses the effect of an in-flight event: whenever a  *)
(* handleMessage call of an admitted event completes without error, the     *)
(* registry holds a session for the call's sender and it is the session     *)
(* object the call updated (which carries the node the call left there and  *)
(* the call's touch time), also when the sweep ran while the call was       *)
(* suspended.                                                               *)
C21_SweepKeepsInFlight ==
    [][\A c \in CallIds :
          (Completes(c) /\ HandledWithoutError(c)') =>
             /\ userSessions'[calls'[c].sender] # 0
             /\ userSessions'[calls'[c].sender] = calls'[c].session]_vars

\* the node an event leads to from node n when it is handled on its own: the
\* first edge target of the payload or of the matched button if it is a node,
\* the first declared node for a text without a target, n otherwise
NodeAfter(n, m) ==
    IF m.postback # ""
    THEN IF EdgesFrom(m.postback) # {} /\ IsNode(FirstEdgeTarget(m.postback))
         THEN FirstEdgeTarget(m.postback) ELSE n
    ELSE IF m.text # ""
    THEN IF LabelHits(n, m.text) # {} /\ EdgesFrom(FirstLabelHit(n, m.text)) # {}
         THEN IF IsNode(FirstEdgeTarget(FirstLabelHit(n, m.text)))
              THEN FirstEdgeTarget(FirstLabelHit(n, m.text)) ELSE n
         ELSE FirstNodeId
    ELSE n

\* the node templates that event dispatches from node n
TemplatesAfter(u, n, m) ==
    IF \/ m.postback # "" /\ NodeAfter(n, m) = n /\
             ~(EdgesFrom(m.postback) # {} /\ IsNode(FirstEdgeTarget(m.postback)))
       \/ m.postback = "" /\ m.text = ""
       \/ /\ m.postback = "" /\ m.text # "" /\ LabelHits(n, m.text) # {}
          /\ EdgesFrom(FirstLabelHit(n, m.text)) # {}
          /\ ~IsNode(FirstEdgeTarget(FirstLabelHit(n, m.text)))
    THEN << >>
    ELSE <<Sent("template", u, sendTemplateMessage(createTemplateFromNode(NodeOf(NodeAfter(n, m)))))>>

\* calls 1 and 2 handle two events of one sender from one batch, both were
\* admitted well below the rate limit and both have completed without error
BothCompleted ==
    /\ Len(webhook.events) = 2
    /\ \A c \in {1, 2} : calls[c].pc = "done" /\ HandledWithoutError(c)
    /\ calls[1].sender = calls[2].sender
    /\ calls[1].session = calls[2].session
    /\ calls[1].pre.messageCount + 2 < 20

(* C22: two events of one sender delivered in one batch leave the sender's  *)
(* currentNode, and dispatch the templates, that handling the first event   *)
(* and then the second would, for every interleaving of their awaits (the   *)
(* templates are compared event by event).                                  *)
C22_AsIfInBatchOrder ==
    BothCompleted =>
       LET n0 == calls[1].pre.currentNode
           n1 == NodeAfter(n0, calls[1].message)
           n2 == NodeAfter(n1, calls[2].message)
       IN /\ SessionOf(2).currentNode = n2
          /\ Templates(1) = TemplatesAfter(calls[1].sender, n0, calls[1].message)
          /\ Templates(2) = TemplatesAfter(calls[2].sender, n1, calls[2].message)

====
